---- MODULE Spec2Model ----
(***************************************************************************)
(* A model of lending-library (src/src/lib.rs): a keyed store whose slots  *)
(* are Present(v), Loaned or AwaitingDrop, and the Loan guard that returns *)
(* a lent value to the store through checkin when it is dropped.           *)
(*                                                                         *)
(* A panic is modelled by the variable panic: once it holds a message the  *)
(* thread is unwinding (thread::panicking() is true), no further public    *)
(* operation runs, and only the destructors of the live objects run.       *)
(* Each action writes the state exactly as far as the code has written it  *)
(* at the point of the panic.                                              *)
(***************************************************************************)
EXTENDS Integers, Sequences, FiniteSets, TLC

\* Bounds of the model: the keys are 1..MaxKey, insert is called with the values
\* 0..MaxVal, and lend builds at most MaxLoans Loans in a run.
MaxKey == 2
MaxVal == 0
MaxLoans == 2

Keys == 1..MaxKey
\* The values insert is called with.
Vals == 0..MaxVal
\* A value that only a write through a Loan produces (as push_str does in basic_use).
Written == MaxVal + 1
\* The values a Loan may hold.
LoanVals == Vals \cup {Written}

\* Option<T>: None, Some(x).
None == <<>>
Some(x) == <<x>>
is_some(o) == Len(o) = 1
unwrap(o) == o[1]

\* enum State<V> { Present(V), Loaned, AwaitingDrop }
Present(v) == <<"Present", v>>
Loaned == <<"Loaned">>
AwaitingDrop == <<"AwaitingDrop">>
IsPresent(s) == s[1] = "Present"
States == {Present(v) : v \in LoanVals} \cup {Loaned, AwaitingDrop}

\* thread::panicking() is false while panic = NoPanic.
NoPanic == ""

\* Result slot of an operation that returns () or that panicked.
Unit == <<>>

VARIABLES
    store,        \* LendingLibrary.store: HashMap<K, State<V>>, a function on the keys it holds
    outstanding,  \* LendingLibrary.outstanding: AtomicUsize
    loans,        \* every Loan built by lend, in order of creation: [key, inner]
    panic,        \* the message of the panic in progress, NoPanic when there is none
    dropped,      \* TRUE once the LendingLibrary has been dropped
    last,         \* the last call: [op, key, ret]
    removed       \* history: the keys on which remove was called with no insert since

vars == <<store, outstanding, loans, panic, dropped, last, removed>>

\* The key slot of a call that takes no key.
NoKey == MaxKey + 1

panicking == panic # NoPanic

Call(op, key, ret) == [op |-> op, key |-> key, ret |-> ret]

\* HashMap primitives.
EmptyMap == [k \in {} |-> Loaned]
map_insert(m, key, s) == [k \in DOMAIN m \cup {key} |-> IF k = key THEN s ELSE m[k]]
map_remove(m, key) == [k \in DOMAIN m \ {key} |-> m[k]]
map_get(m, key) == IF key \in DOMAIN m THEN Some(m[key]) ELSE None

\* LendingLibrary::new
new ==
    /\ store = EmptyMap
    /\ outstanding = 0
    /\ loans = <<>>
    /\ panic = NoPanic
    /\ dropped = FALSE
    /\ last = Call("new", NoKey, Unit)
    /\ removed = {}

Init == new

\* The public operations take &self or &mut self: the store is alive, and the
\* thread is not unwinding.
Callable == ~panicking /\ ~dropped

\* LendingLibrary::len: the sum over the entries of 1 for Present | Loaned, 0 for AwaitingDrop.
RECURSIVE len_sum(_, _)
len_sum(m, ks) ==
    IF ks = {} THEN 0
    ELSE LET k == CHOOSE x \in ks : TRUE
         IN (IF IsPresent(m[k]) \/ m[k] = Loaned THEN 1 ELSE 0) + len_sum(m, ks \ {k})

\* len as the raw size of the map: AwaitingDrop entries are counted.
len_RawSize == Cardinality(DOMAIN store)

len == len_sum(store, DOMAIN store)

\* LendingLibrary::is_empty
is_empty == len = 0

\* contains_key as raw map membership: an AwaitingDrop entry is reported as contained.
contains_key_RawMembership(key) == is_some(map_get(store, key))

\* LendingLibrary::contains_key
contains_key(key) ==
    LET g == map_get(store, key)
    IN IF is_some(g)
       THEN (IF IsPresent(unwrap(g)) \/ unwrap(g) = Loaned THEN TRUE ELSE FALSE)
       ELSE FALSE

\* insert_match dropping the replaced value: an overwrite is reported as a fresh insert.
insert_match_ForgetsOld(old) ==
    IF is_some(old)
    THEN CASE IsPresent(unwrap(old)) -> [ret |-> None, panic |-> NoPanic]
           [] unwrap(old) = Loaned -> [ret |-> Unit, panic |-> "Cannot overwrite loaned value"]
           [] unwrap(old) = AwaitingDrop -> [ret |-> Unit, panic |-> "Cannot overwrite value awaiting drop"]
    ELSE [ret |-> None, panic |-> NoPanic]

\* The match of insert with a Loaned arm that lets the overwrite pass.
insert_match_OverwritesLoaned(old) ==
    IF is_some(old)
    THEN CASE IsPresent(unwrap(old)) -> [ret |-> Some(unwrap(old)[2]), panic |-> NoPanic]
           [] unwrap(old) = Loaned -> [ret |-> None, panic |-> NoPanic]
           [] unwrap(old) = AwaitingDrop -> [ret |-> Unit, panic |-> "Cannot overwrite value awaiting drop"]
    ELSE [ret |-> None, panic |-> NoPanic]

\* The match of insert on the entry it replaced (None: the key was vacant):
\* the value returned, or the panic.
insert_match(old) ==
    IF is_some(old)
    THEN CASE IsPresent(unwrap(old)) -> [ret |-> Some(unwrap(old)[2]), panic |-> NoPanic]
           [] unwrap(old) = Loaned -> [ret |-> Unit, panic |-> "Cannot overwrite loaned value"]
           [] unwrap(old) = AwaitingDrop -> [ret |-> Unit, panic |-> "Cannot overwrite value awaiting drop"]
    ELSE [ret |-> None, panic |-> NoPanic]

\* LendingLibrary::insert: the map entry is overwritten first, the old state is matched after.
insert(key, val) ==
    /\ Callable
    /\ LET old == map_get(store, key)
           m == insert_match(old)
       IN /\ store' = map_insert(store, key, Present(val))
          /\ panic' = m.panic
          /\ last' = Call("insert", key, m.ret)
    /\ removed' = removed \ {key}
    /\ UNCHANGED <<outstanding, loans, dropped>>

\* remove_match answering true for an entry that is already AwaitingDrop.
remove_match_PendingTrue(v) ==
    CASE IsPresent(v) -> [delete |-> TRUE, ret |-> TRUE]
      [] v = Loaned -> [delete |-> FALSE, ret |-> TRUE]
      [] v = AwaitingDrop -> [delete |-> FALSE, ret |-> TRUE]

\* remove_match deleting a Loaned entry at once instead of deferring.
remove_match_DeletesLoaned(v) ==
    CASE IsPresent(v) -> [delete |-> TRUE, ret |-> TRUE]
      [] v = Loaned -> [delete |-> TRUE, ret |-> TRUE]
      [] v = AwaitingDrop -> [delete |-> FALSE, ret |-> FALSE]

\* remove_match deferring the removal of a Present entry as if it were on loan.
remove_match_PresentPends(v) ==
    CASE IsPresent(v) -> [delete |-> FALSE, ret |-> TRUE]
      [] v = Loaned -> [delete |-> FALSE, ret |-> TRUE]
      [] v = AwaitingDrop -> [delete |-> FALSE, ret |-> FALSE]

\* The match of remove on the state v the occupied entry held: whether the entry
\* is deleted, and the value returned.
remove_match(v) ==
    CASE IsPresent(v) -> [delete |-> TRUE, ret |-> TRUE]
      [] v = Loaned -> [delete |-> FALSE, ret |-> TRUE]
      [] v = AwaitingDrop -> [delete |-> FALSE, ret |-> FALSE]

\* LendingLibrary::remove: an occupied entry is set to AwaitingDrop first, then
\* deleted if it was Present.
remove(key) ==
    /\ Callable
    /\ IF key \in DOMAIN store
       THEN LET e == [store EXCEPT ![key] = AwaitingDrop]
                m == remove_match(store[key])
            IN /\ store' = IF m.delete THEN map_remove(e, key) ELSE e
               /\ last' = Call("remove", key, m.ret)
       ELSE /\ store' = store
            /\ last' = Call("remove", key, FALSE)
    /\ removed' = removed \cup {key}
    /\ UNCHANGED <<outstanding, loans, panic, dropped>>

\* lend_match with the Loaned arm merged into the Present arm: a second Loan is handed out.
lend_match_LoanedLends(v) ==
    CASE IsPresent(v) -> [inner |-> Some(v[2]), panic |-> NoPanic]
      [] v = Loaned -> [inner |-> Some(0), panic |-> NoPanic]
      [] v = AwaitingDrop -> [inner |-> None, panic |-> "Lending value awaiting drop"]

\* lend_match with the AwaitingDrop arm merged into the Present arm: a pending key is lent.
lend_match_AwaitingLends(v) ==
    CASE IsPresent(v) -> [inner |-> Some(v[2]), panic |-> NoPanic]
      [] v = Loaned -> [inner |-> None, panic |-> "Lending already loaned value"]
      [] v = AwaitingDrop -> [inner |-> Some(0), panic |-> NoPanic]

\* The match of lend on the state v the occupied entry held: the value that
\* goes into the new Loan, or the panic.
lend_match(v) ==
    CASE IsPresent(v) -> [inner |-> Some(v[2]), panic |-> NoPanic]
      [] v = Loaned -> [inner |-> None, panic |-> "Lending already loaned value"]
      [] v = AwaitingDrop -> [inner |-> None, panic |-> "Lending value awaiting drop"]

\* lend whose vacant arm files a Loaned slot for the key.
lend_VacantInserts(key) ==
    /\ Callable
    /\ (key \in DOMAIN store /\ IsPresent(store[key])) => Len(loans) < MaxLoans
    /\ IF key \in DOMAIN store
       THEN LET m == lend_match(store[key])
            IN /\ store' = [store EXCEPT ![key] = Loaned]
               /\ panic' = m.panic
               /\ IF is_some(m.inner)
                  THEN /\ outstanding' = outstanding + 1
                       /\ loans' = Append(loans, [key |-> Some(key), inner |-> m.inner])
                       /\ last' = Call("lend", key, Some(Len(loans) + 1))
                  ELSE /\ last' = Call("lend", key, Unit)
                       /\ UNCHANGED <<outstanding, loans>>
       ELSE /\ last' = Call("lend", key, None)
            /\ store' = map_insert(store, key, Loaned)
            /\ UNCHANGED <<outstanding, loans, panic>>
    /\ UNCHANGED <<dropped, removed>>

\* LendingLibrary::lend: an occupied entry is set to Loaned first, the old state
\* is matched after. The model stops lending at MaxLoans loans.
lend(key) ==
    /\ Callable
    /\ (key \in DOMAIN store /\ IsPresent(store[key])) => Len(loans) < MaxLoans
    /\ IF key \in DOMAIN store
       THEN LET m == lend_match(store[key])
            IN /\ store' = [store EXCEPT ![key] = Loaned]
               /\ panic' = m.panic
               /\ IF is_some(m.inner)
                  THEN /\ outstanding' = outstanding + 1
                       /\ loans' = Append(loans, [key |-> Some(key), inner |-> m.inner])
                       /\ last' = Call("lend", key, Some(Len(loans) + 1))
                  ELSE /\ last' = Call("lend", key, Unit)
                       /\ UNCHANGED <<outstanding, loans>>
       ELSE /\ last' = Call("lend", key, None)
            /\ UNCHANGED <<store, outstanding, loans, panic>>
    /\ UNCHANGED <<dropped, removed>>

\* checkin_match with the arms of Loaned and AwaitingDrop swapped: a returned value is deleted.
checkin_match_Swapped(v) ==
    CASE IsPresent(v) -> [delete |-> FALSE, panic |-> "Returning replaced item"]
      [] v = Loaned -> [delete |-> TRUE, panic |-> NoPanic]
      [] v = AwaitingDrop -> [delete |-> FALSE, panic |-> NoPanic]

\* The match of checkin on the state v the occupied entry held: whether the
\* entry is deleted, and the panic.
checkin_match(v) ==
    CASE IsPresent(v) -> [delete |-> FALSE, panic |-> "Returning replaced item"]
      [] v = Loaned -> [delete |-> FALSE, panic |-> NoPanic]
      [] v = AwaitingDrop -> [delete |-> TRUE, panic |-> NoPanic]

\* checkin that, when it deletes the returned key's entry, deletes every entry
\* that is AwaitingDrop with it.
checkin_SweepsPending(key, val) ==
    IF key \in DOMAIN store
    THEN LET e == [store EXCEPT ![key] = Present(val)]
             m == checkin_match(store[key])
         IN /\ outstanding' = outstanding - 1
            /\ store' = IF m.delete
                        THEN [k \in {j \in DOMAIN e : j # key /\ e[j] # AwaitingDrop} |-> e[k]]
                        ELSE e
            /\ panic' = m.panic
    ELSE /\ panic' = "Returning item not from store"
         /\ UNCHANGED <<store, outstanding>>

\* checkin without the fetch_sub: a returned Loan stays counted.
checkin_NoDecrement(key, val) ==
    IF key \in DOMAIN store
    THEN LET e == [store EXCEPT ![key] = Present(val)]
             m == checkin_match(store[key])
         IN /\ outstanding' = outstanding
            /\ store' = IF m.delete THEN map_remove(e, key) ELSE e
            /\ panic' = m.panic
    ELSE /\ panic' = "Returning item not from store"
         /\ UNCHANGED <<store, outstanding>>

\* LendingLibrary::checkin: the counter is decremented and the entry overwritten
\* with Present(val) before the old state is matched. fetch_sub is on a usize;
\* the counter is positive wherever a Loan built by lend is checked in.
checkin(key, val) ==
    IF key \in DOMAIN store
    THEN LET e == [store EXCEPT ![key] = Present(val)]
             m == checkin_match(store[key])
         IN /\ outstanding' = outstanding - 1
            /\ store' = IF m.delete THEN map_remove(e, key) ELSE e
            /\ panic' = m.panic
    ELSE /\ panic' = "Returning item not from store"
         /\ UNCHANGED <<store, outstanding>>

\* Every map the store could hold.
AllMaps == UNION {[D -> States] : D \in SUBSET Keys}

\* (*self.owner).checkin(..) through a pointer to a LendingLibrary that has been
\* dropped is undefined behaviour: any outcome.
checkin_dangling ==
    /\ store' \in AllMaps
    /\ outstanding' \in 0..MaxLoans
    /\ panic' \in {NoPanic, "Returning replaced item", "Returning item not from store"}

\* Drop for Loan reading key and inner without take(): the Loan keeps its value
\* after checkin.
Loan_drop_NoTake(i) ==
    /\ i \in DOMAIN loans
    /\ IF is_some(loans[i].inner) /\ ~panicking
       THEN /\ loans' = loans
            /\ IF dropped
               THEN checkin_dangling
               ELSE checkin(unwrap(loans[i].key), unwrap(loans[i].inner))
            /\ last' = Call("Loan_drop", unwrap(loans[i].key), TRUE)
       ELSE /\ last' = Call("Loan_drop", NoKey, FALSE)
            /\ UNCHANGED <<store, outstanding, loans, panic>>
    /\ UNCHANGED <<dropped, removed>>

\* Drop for Loan without the test of thread::panicking().
Loan_drop_NoPanicCheck(i) ==
    /\ i \in DOMAIN loans
    /\ IF is_some(loans[i].inner)
       THEN /\ loans' = [loans EXCEPT ![i] = [key |-> None, inner |-> None]]
            /\ IF dropped
               THEN checkin_dangling
               ELSE checkin(unwrap(loans[i].key), unwrap(loans[i].inner))
            /\ last' = Call("Loan_drop", unwrap(loans[i].key), TRUE)
       ELSE /\ last' = Call("Loan_drop", NoKey, FALSE)
            /\ UNCHANGED <<store, outstanding, loans, panic>>
    /\ UNCHANGED <<dropped, removed>>

\* Drop for Loan. ret records whether checkin was called.
Loan_drop(i) ==
    /\ i \in DOMAIN loans
    /\ IF is_some(loans[i].inner) /\ ~panicking
       THEN /\ loans' = [loans EXCEPT ![i] = [key |-> None, inner |-> None]]
            /\ IF dropped
               THEN checkin_dangling
               ELSE checkin(unwrap(loans[i].key), unwrap(loans[i].inner))
            /\ last' = Call("Loan_drop", unwrap(loans[i].key), TRUE)
       ELSE /\ last' = Call("Loan_drop", NoKey, FALSE)
            /\ UNCHANGED <<store, outstanding, loans, panic>>
    /\ UNCHANGED <<dropped, removed>>

\* DerefMut for Loan, followed by a write of val through the reference. The
\* holder of a Loan that still has its value writes to it.
deref_mut(i, val) ==
    /\ ~panicking
    /\ i \in DOMAIN loans
    /\ is_some(loans[i].inner)
    /\ loans' = [loans EXCEPT ![i].inner = Some(val)]
    /\ last' = Call("deref_mut", unwrap(loans[i].key), Unit)
    /\ UNCHANGED <<store, outstanding, panic, dropped, removed>>

\* retain with the closure keeping nothing but panicking on Loaned: AwaitingDrop
\* entries are deleted too.
RECURSIVE retain_DropsAwaiting(_, _)
retain_DropsAwaiting(m, order) ==
    IF order = <<>> THEN [store |-> m, panic |-> NoPanic]
    ELSE LET k == Head(order)
         IN CASE IsPresent(m[k]) -> retain_DropsAwaiting(map_remove(m, k), Tail(order))
              [] m[k] = AwaitingDrop -> retain_DropsAwaiting(map_remove(m, k), Tail(order))
              [] m[k] = Loaned -> [store |-> m, panic |-> "Trying to clear while values loaned."]

\* retain with the closure of an older clear, which discards a Loaned entry
\* like a Present one instead of panicking.
RECURSIVE retain_DiscardsLoaned(_, _)
retain_DiscardsLoaned(m, order) ==
    IF order = <<>> THEN [store |-> m, panic |-> NoPanic]
    ELSE LET k == Head(order)
         IN CASE IsPresent(m[k]) -> retain_DiscardsLoaned(map_remove(m, k), Tail(order))
              [] m[k] = AwaitingDrop -> retain_DiscardsLoaned(m, Tail(order))
              [] m[k] = Loaned -> retain_DiscardsLoaned(map_remove(m, k), Tail(order))

\* HashMap::retain with the closure of clear, visiting the entries in the order
\* given: Present entries are deleted, AwaitingDrop entries kept, and a Loaned
\* entry panics, leaving the entries deleted so far deleted.
RECURSIVE retain(_, _)
retain(m, order) ==
    IF order = <<>> THEN [store |-> m, panic |-> NoPanic]
    ELSE LET k == Head(order)
         IN CASE IsPresent(m[k]) -> retain(map_remove(m, k), Tail(order))
              [] m[k] = AwaitingDrop -> retain(m, Tail(order))
              [] m[k] = Loaned -> [store |-> m, panic |-> "Trying to clear while values loaned."]

\* The orders in which a HashMap may iterate over the keys S: all of them.
Orders(S) == {o \in [1..Cardinality(S) -> S] : \A a, b \in 1..Cardinality(S) : o[a] = o[b] => a = b}

\* LendingLibrary::clear
clear ==
    /\ Callable
    /\ \E order \in Orders(DOMAIN store) :
          LET r == retain(store, order)
          IN /\ store' = r.store
             /\ panic' = r.panic
    /\ last' = Call("clear", NoKey, Unit)
    /\ UNCHANGED <<outstanding, loans, dropped, removed>>

\* The closure of into_iter mapped over the entries in the order given, run to
\* the end as a for loop does: a Present entry yields its key and value, any
\* other entry panics. items are the pairs yielded before that.
RECURSIVE iter_walk(_, _)
iter_walk(m, order) ==
    IF order = <<>> THEN [items |-> <<>>, panic |-> NoPanic]
    ELSE LET k == Head(order)
         IN IF IsPresent(m[k])
            THEN LET r == iter_walk(m, Tail(order))
                 IN [items |-> <<<<k, m[k][2]>>>> \o r.items, panic |-> r.panic]
            ELSE [items |-> <<>>, panic |-> "Trying to iterate over a store with loaned items."]

\* IntoIterator for &LendingLibrary (LendingLibrary::iter), consumed by a for loop.
iter ==
    /\ Callable
    /\ \E order \in Orders(DOMAIN store) :
          LET r == iter_walk(store, order)
          IN /\ panic' = r.panic
             /\ last' = Call("iter", NoKey, r.items)
    /\ UNCHANGED <<store, outstanding, loans, dropped, removed>>

\* The same over iter_mut, the loop body writing val through each reference it
\* is given (as tests::iters does): store is the map after the loop.
RECURSIVE iter_mut_walk(_, _, _)
iter_mut_walk(m, order, val) ==
    IF order = <<>> THEN [store |-> m, items |-> <<>>, panic |-> NoPanic]
    ELSE LET k == Head(order)
         IN IF IsPresent(m[k])
            THEN LET r == iter_mut_walk([m EXCEPT ![k] = Present(val)], Tail(order), val)
                 IN [store |-> r.store, items |-> <<<<k, m[k][2]>>>> \o r.items, panic |-> r.panic]
            ELSE [store |-> m, items |-> <<>>,
                  panic |-> "Trying to iterate over a store with loaned items."]

\* IntoIterator for &mut LendingLibrary (LendingLibrary::iter_mut), consumed by a
\* for loop that writes val to every value.
iter_mut(val) ==
    /\ Callable
    /\ \E order \in Orders(DOMAIN store) :
          LET r == iter_mut_walk(store, order, val)
          IN /\ store' = r.store
             /\ panic' = r.panic
             /\ last' = Call("iter_mut", NoKey, r.items)
    /\ UNCHANGED <<outstanding, loans, dropped, removed>>

\* Drop for LendingLibrary without the check of the counter.
LendingLibrary_drop_NoLeakCheck ==
    /\ ~dropped
    /\ dropped' = TRUE
    /\ panic' = panic
    /\ last' = Call("LendingLibrary_drop", NoKey, Unit)
    /\ UNCHANGED <<store, outstanding, loans, removed>>

\* Drop for LendingLibrary
LendingLibrary_drop ==
    /\ ~dropped
    /\ dropped' = TRUE
    /\ IF ~panicking
       THEN LET count == outstanding
            IN IF count # 0
               THEN panic' = ToString(count) \o " value loans outlived store."
               ELSE panic' = panic
       ELSE panic' = panic
    /\ last' = Call("LendingLibrary_drop", NoKey, Unit)
    /\ UNCHANGED <<store, outstanding, loans, removed>>

Next ==
    \/ \E key \in Keys, val \in Vals : insert(key, val)
    \/ \E key \in Keys : remove(key)
    \/ \E key \in Keys : lend(key)
    \/ clear
    \/ iter
    \/ \E val \in Vals : iter_mut(val)
    \/ \E i \in 1..MaxLoans, val \in LoanVals : deref_mut(i, val)
    \/ \E i \in 1..MaxLoans : Loan_drop(i)
    \/ LendingLibrary_drop

Spec == Init /\ [][Next]_vars

(***************************************************************************)
(* The vocabulary of the properties.                                       *)
(***************************************************************************)

\* The state of the slot of k: "Present", "Loaned", "AwaitingDrop", or "Absent".
SlotTag(k) == IF k \in DOMAIN store THEN store[k][1] ELSE "Absent"

\* The Loans that still hold their value.
ActiveLoans == {i \in DOMAIN loans : is_some(loans[i].inner)}

\* The active Loans lent for key k.
LoansOf(k) == {i \in ActiveLoans : loans[i].key = Some(k)}

\* The step is a call of op with key k. Every action writes its name and key to
\* last, so this follows from the action itself; stated first, it lets the
\* other steps be set aside without evaluating the action.
Did(op, k) == last'.op = op /\ last'.key = k

\* The step is the drop of Loan i, for key k, and it calls checkin.
Release(i, k) ==
    /\ Did("Loan_drop", k)
    /\ i \in LoansOf(k)
    /\ ~panicking
    /\ ~dropped
    /\ Loan_drop(i)

\* C1: no key ever has two active Loans, and lend(k) on a Loaned slot panics
\* and builds no second Loan.
C1_OneLoanPerKey ==
    /\ [](\A i, j \in ActiveLoans : i # j => loans[i].key # loans[j].key)
    /\ [][\A k \in Keys : (Did("lend", k) /\ lend(k) /\ SlotTag(k) = "Loaned") =>
            /\ panic' = "Lending already loaned value"
            /\ loans' = loans
            /\ outstanding' = outstanding]_vars

\* A second lend on a loaned key has been attempted, and the first Loan is still active.
C1_Witness ==
    /\ panic = "Lending already loaned value"
    /\ last.op = "lend"
    /\ LoansOf(last.key) # {}

\* C2: a Loaned slot stays Loaned until remove(k) or the release of its Loan; a
\* write through the Loan replaces the value it holds; the release puts the
\* value the Loan then holds back as Present, so contains_key(k) is true; and
\* lend(k) on a Present slot yields a Loan holding the value of the slot.
C2_RoundTrip ==
    /\ [][\A k \in Keys : (/\ SlotTag(k) = "Loaned"
                           /\ panic' = NoPanic
                           /\ ~(Did("remove", k) /\ remove(k))
                           /\ ~(\E i \in LoansOf(k) : Release(i, k))) =>
            SlotTag(k)' = "Loaned"]_vars
    /\ [][\A i \in ActiveLoans : \A w \in LoanVals : (Did("deref_mut", unwrap(loans[i].key)) /\ deref_mut(i, w)) =>
            loans' = [loans EXCEPT ![i] = [key |-> loans[i].key, inner |-> Some(w)]]]_vars
    /\ [][\A k \in Keys : \A i \in LoansOf(k) : (Release(i, k) /\ SlotTag(k) = "Loaned") =>
            /\ store' = [store EXCEPT ![k] = Present(unwrap(loans[i].inner))]
            /\ contains_key(k)'
            /\ panic' = NoPanic]_vars
    /\ [][\A k \in Keys : (Did("lend", k) /\ lend(k) /\ SlotTag(k) = "Present") =>
            /\ panic' = NoPanic
            /\ last'.ret = Some(Len(loans) + 1)
            /\ loans' = Append(loans, [key |-> Some(k), inner |-> Some(store[k][2])])]_vars

\* A lend has just yielded a value that only a write through an earlier Loan
\* of the key can have put into the store.
C2_Witness ==
    /\ last.op = "lend"
    /\ panic = NoPanic
    /\ Len(last.ret) = 1
    /\ loans[last.ret[1]] = [key |-> Some(last.key), inner |-> Some(Written)]

\* C3: remove(k) on a Loaned slot returns true and leaves the slot in the map as
\* AwaitingDrop; an AwaitingDrop slot stays in the map through every step that
\* is not the release of its Loan; that release deletes the slot, so
\* contains_key(k) is false; and lend(k) on an absent key returns None.
C3_DeferredRemoval ==
    /\ [][\A k \in Keys : (Did("remove", k) /\ remove(k) /\ SlotTag(k) = "Loaned") =>
            /\ last'.ret = TRUE
            /\ store' = [store EXCEPT ![k] = AwaitingDrop]
            /\ UNCHANGED <<outstanding, loans, panic>>]_vars
    /\ [][\A k \in Keys : (/\ SlotTag(k) = "AwaitingDrop"
                           /\ ~(\E i \in LoansOf(k) : Release(i, k))) =>
            k \in DOMAIN store']_vars
    /\ [][\A k \in Keys : \A i \in LoansOf(k) : (Release(i, k) /\ SlotTag(k) = "AwaitingDrop") =>
            /\ store' = [x \in DOMAIN store \ {k} |-> store[x]]
            /\ ~contains_key(k)'
            /\ panic' = NoPanic]_vars
    /\ [][\A k \in Keys : (Did("lend", k) /\ lend(k) /\ SlotTag(k) = "Absent") =>
            /\ last'.ret = None
            /\ UNCHANGED <<store, outstanding, loans, panic>>]_vars

\* The release of a Loan has just deleted the slot of a key removed while loaned.
C3_Witness ==
    /\ last.op = "Loan_drop"
    /\ last.ret = TRUE
    /\ panic = NoPanic
    /\ last.key \in removed
    /\ last.key \notin DOMAIN store

\* C4: lend(k) on an AwaitingDrop slot panics, builds no Loan and leaves the
\* outstanding counter alone.
C4_NoLendAfterRemove ==
    [][\A k \in Keys : (Did("lend", k) /\ lend(k) /\ SlotTag(k) = "AwaitingDrop") =>
            /\ panic' = "Lending value awaiting drop"
            /\ loans' = loans
            /\ outstanding' = outstanding]_vars

\* A lend on a key pending removal has been attempted.
C4_Witness ==
    /\ panic = "Lending value awaiting drop"
    /\ last.op = "lend"
    /\ last.key \in removed
    /\ LoansOf(last.key) # {}

\* C5: insert(k, v) on a Loaned or AwaitingDrop slot panics and leaves the slot
\* of k in the state it had.
C5_FailedInsertKeepsSlot ==
    [][\A k \in Keys : \A v \in Vals :
            (Did("insert", k) /\ insert(k, v) /\ SlotTag(k) \in {"Loaned", "AwaitingDrop"}) =>
                /\ panic' # NoPanic
                /\ store'[k] = store[k]]_vars

\* C6: insert(k, v) on an absent key adds the slot Present(v) and returns None;
\* on a Present(old) slot it puts Present(v) and returns Some(old); neither
\* panics, and neither touches another slot, the Loans or the outstanding counter.
C6_Insert ==
    [][\A k \in Keys : \A v \in Vals :
            (Did("insert", k) /\ insert(k, v) /\ SlotTag(k) \in {"Absent", "Present"}) =>
                /\ store' = [x \in DOMAIN store \cup {k} |-> IF x = k THEN Present(v) ELSE store[x]]
                /\ last'.ret = IF SlotTag(k) = "Absent" THEN None ELSE Some(store[k][2])
                /\ panic' = NoPanic
                /\ UNCHANGED <<outstanding, loans>>]_vars

\* An insert has just replaced a Present value by a different one and returned the old one.
C6_Witness ==
    /\ last.op = "insert"
    /\ panic = NoPanic
    /\ Len(last.ret) = 1
    /\ SlotTag(last.key) = "Present"
    /\ store[last.key][2] # last.ret[1]

\* C7: remove(k) by slot state: absent, false and nothing changes; Present, the
\* slot is deleted and true; Loaned, the slot becomes AwaitingDrop and true;
\* AwaitingDrop, false and nothing changes. And a remove(k) that follows a
\* remove(k) with no insert(k) between them returns false and changes nothing.
C7_Remove ==
    /\ [][\A k \in Keys : (Did("remove", k) /\ remove(k)) =>
            /\ UNCHANGED <<outstanding, loans, panic>>
            /\ CASE SlotTag(k) = "Absent" -> last'.ret = FALSE /\ store' = store
                 [] SlotTag(k) = "Present" ->
                      last'.ret = TRUE /\ store' = [x \in DOMAIN store \ {k} |-> store[x]]
                 [] SlotTag(k) = "Loaned" ->
                      last'.ret = TRUE /\ store' = [store EXCEPT ![k] = AwaitingDrop]
                 [] SlotTag(k) = "AwaitingDrop" -> last'.ret = FALSE /\ store' = store]_vars
    /\ [][\A k \in removed : (Did("remove", k) /\ remove(k)) =>
            /\ last'.ret = FALSE
            /\ UNCHANGED <<store, outstanding, loans, panic>>]_vars

\* A second remove of a key pending removal has just returned false.
C7_Witness ==
    /\ last.op = "remove"
    /\ last.ret = FALSE
    /\ SlotTag(last.key) = "AwaitingDrop"
    /\ LoansOf(last.key) # {}

\* C8: contains_key(k) is true exactly when the slot of k is Present or Loaned;
\* and remove(k) on a Loaned slot makes it false while the Loan is still active.
C8_ContainsKey ==
    /\ [](\A k \in Keys : contains_key(k) <=> SlotTag(k) \in {"Present", "Loaned"})
    /\ [][\A k \in Keys : (Did("remove", k) /\ remove(k) /\ SlotTag(k) = "Loaned") =>
            /\ contains_key(k)
            /\ ~contains_key(k)'
            /\ LoansOf(k)' = LoansOf(k)
            /\ LoansOf(k) # {}]_vars

\* A loaned key has just been removed: its Loan is active and it is no longer contained.
C8_Witness ==
    /\ last.op = "remove"
    /\ last.ret = TRUE
    /\ SlotTag(last.key) = "AwaitingDrop"
    /\ LoansOf(last.key) # {}
    /\ ~contains_key(last.key)

\* C9: len is the number of keys whose slot is Present or Loaned, which is the
\* number of keys contains_key holds of, and is_empty is true exactly when
\* that number is 0.
C9_Len ==
    /\ len = Cardinality({k \in Keys : SlotTag(k) \in {"Present", "Loaned"}})
    /\ len = Cardinality({k \in Keys : contains_key(k)})
    /\ is_empty <=> Cardinality({k \in Keys : SlotTag(k) \in {"Present", "Loaned"}}) = 0

\* The map holds a Loaned slot, counted, and an AwaitingDrop slot, not counted.
C9_Witness ==
    /\ \E k \in Keys : SlotTag(k) = "AwaitingDrop"
    /\ \E k \in Keys : SlotTag(k) = "Loaned"
    /\ len = 1
    /\ ~is_empty

\* Every AwaitingDrop slot is the slot of the key of an active Loan.
PendingHasLoan == \A k \in Keys : SlotTag(k) = "AwaitingDrop" => LoansOf(k) # {}

\* C10: clear with no Loaned slot deletes the Present slots, keeps the
\* AwaitingDrop slots, does not panic and leaves the Loans and the outstanding
\* counter alone, so len is 0 after it; every AwaitingDrop slot has an active
\* Loan, whose release deletes it; and a release in a store of len 0 leaves
\* len 0.
C10_Clear ==
    /\ [][(Did("clear", NoKey) /\ clear /\ \A k \in Keys : SlotTag(k) # "Loaned") =>
            /\ store' = [k \in {x \in DOMAIN store : store[x] = AwaitingDrop} |-> AwaitingDrop]
            /\ panic' = NoPanic
            /\ UNCHANGED <<outstanding, loans>>
            /\ len' = 0]_vars
    /\ [](~panicking => PendingHasLoan)
    /\ [][\A k \in Keys : \A i \in LoansOf(k) : (Release(i, k) /\ SlotTag(k) = "AwaitingDrop") =>
            /\ k \notin DOMAIN store'
            /\ \A x \in DOMAIN store \ {k} : x \in DOMAIN store' /\ store'[x] = store[x]]_vars
    /\ [][\A k \in Keys : \A i \in LoansOf(k) : (Release(i, k) /\ len = 0) => len' = 0]_vars

\* A clear has just run without a panic and left an AwaitingDrop slot, and its Loan, behind.
C10_Witness ==
    /\ last.op = "clear"
    /\ panic = NoPanic
    /\ \E k \in Keys : SlotTag(k) = "AwaitingDrop" /\ LoansOf(k) # {}
    /\ len = 0

\* C11: clear with a Loaned slot panics; every Loaned slot is still Loaned, every
\* AwaitingDrop slot is still there, and the Loans and the outstanding counter
\* are as they were.
C11_ClearWhileLoaned ==
    [][(Did("clear", NoKey) /\ clear /\ \E k \in Keys : SlotTag(k) = "Loaned") =>
            /\ panic' = "Trying to clear while values loaned."
            /\ \A k \in Keys : SlotTag(k) \in {"Loaned", "AwaitingDrop"} =>
                    k \in DOMAIN store' /\ store'[k] = store[k]
            /\ UNCHANGED <<outstanding, loans>>]_vars

\* A clear has just panicked on a Loaned slot whose Loan is active.
C11_Witness ==
    /\ last.op = "clear"
    /\ panic = "Trying to clear while values loaned."
    /\ \E k \in Keys : SlotTag(k) = "Loaned" /\ LoansOf(k) # {}
    /\ outstanding = Cardinality(ActiveLoans)
    /\ outstanding > 0

\* C12: while no panic is in progress the outstanding counter is the number of
\* active Loans, which is the number of Loaned and AwaitingDrop slots; a lend
\* that returns a Loan adds 1 to it, a release takes 1 from it, and insert,
\* remove, clear and a lend that returns None leave it alone.
C12_Outstanding ==
    /\ [](~panicking =>
            /\ outstanding = Cardinality(ActiveLoans)
            /\ outstanding = Cardinality({k \in Keys : SlotTag(k) \in {"Loaned", "AwaitingDrop"}}))
    /\ [][\A k \in Keys : (Did("lend", k) /\ lend(k) /\ panic' = NoPanic) =>
            outstanding' = IF Len(last'.ret) = 1 THEN outstanding + 1 ELSE outstanding]_vars
    /\ [][\A k \in Keys : \A i \in LoansOf(k) : Release(i, k) =>
            outstanding' = outstanding - 1]_vars
    /\ [][(last'.op \in {"insert", "remove", "clear"} /\ panic' = NoPanic) =>
            outstanding' = outstanding]_vars

\* Two Loans have been lent and one of them released: the counter is 1.
C12_Witness ==
    /\ ~panicking
    /\ last.op = "Loan_drop"
    /\ last.ret = TRUE
    /\ Len(loans) = 2
    /\ Cardinality(ActiveLoans) = 1
    /\ outstanding = 1

\* C13: dropping the store while no panic is in progress panics exactly when the
\* outstanding counter is not 0, which is exactly when a Loan is still active
\* and exactly when a slot is Loaned or AwaitingDrop, and the message carries
\* the number of active Loans; with a counter of 0 the drop does not panic.
C13_DropWithLoans ==
    [][(Did("LendingLibrary_drop", NoKey) /\ LendingLibrary_drop /\ ~panicking) =>
            /\ (outstanding # 0) <=> (ActiveLoans # {})
            /\ (outstanding # 0) <=> (\E k \in Keys : SlotTag(k) \in {"Loaned", "AwaitingDrop"})
            /\ IF ActiveLoans # {}
               THEN panic' = ToString(Cardinality(ActiveLoans)) \o " value loans outlived store."
               ELSE panic' = NoPanic
            /\ dropped'
            /\ UNCHANGED <<store, outstanding, loans>>]_vars

\* The store has just been dropped with one active Loan (tests::failure_to_return).
C13_Witness ==
    /\ last.op = "LendingLibrary_drop"
    /\ dropped
    /\ panic = "1 value loans outlived store."
    /\ Cardinality(ActiveLoans) = 1

\* The Loans that have given their value back.
ReleasedLoans == DOMAIN loans \ ActiveLoans

\* C14: a Loan is active when lend returns it; a released Loan is never active
\* again; the drop of an active Loan, with no panic in progress, calls checkin
\* with the key and the value of the Loan (the slot of the key takes the value,
\* or is deleted if it was AwaitingDrop, and the counter loses 1) and leaves
\* the Loan released; the drop of a released Loan calls no checkin and changes
\* neither the store nor the counter.
C14_ExactlyOnce ==
    /\ [][\A k \in Keys : (Did("lend", k) /\ lend(k) /\ panic' = NoPanic /\ Len(last'.ret) = 1) =>
            /\ last'.ret[1] \notin DOMAIN loans
            /\ last'.ret[1] \in LoansOf(k)']_vars
    /\ [][\A i \in ReleasedLoans : i \in ReleasedLoans']_vars
    /\ [][\A k \in Keys : \A i \in LoansOf(k) : Release(i, k) =>
            /\ last'.ret = TRUE
            /\ i \in ReleasedLoans'
            /\ \A j \in DOMAIN loans \ {i} : loans'[j] = loans[j]
            /\ outstanding' = outstanding - 1
            /\ IF SlotTag(k) = "AwaitingDrop"
               THEN k \notin DOMAIN store'
               ELSE store'[k] = Present(unwrap(loans[i].inner))]_vars
    /\ [][\A i \in ReleasedLoans : (Did("Loan_drop", NoKey) /\ Loan_drop(i)) =>
            /\ last'.ret = FALSE
            /\ UNCHANGED <<store, outstanding, loans, panic>>]_vars

\* A released Loan has just been dropped again, with no panic in progress, while
\* the slot it gave its value back to is Present.
C14_Witness ==
    /\ last.op = "Loan_drop"
    /\ last.ret = FALSE
    /\ ~panicking
    /\ Len(loans) = 1
    /\ ReleasedLoans = {1}
    /\ outstanding = 0
    /\ \E k \in Keys : SlotTag(k) = "Present"

\* ---------------------------------------------------------------------------
\* C15  Iteration
\* ---------------------------------------------------------------------------

\* The slots with a value in place, as the pairs an iteration is to yield.
PresentEntries == {<<k, store[k][2]>> : k \in {j \in DOMAIN store : IsPresent(store[j])}}

\* A shared or a mutable iteration of the whole store.
Iterates == /\ last'.op \in {"iter", "iter_mut"}
            /\ (iter \/ \E val \in Vals : iter_mut(val))

\* C15: an iteration of a store holding a Loaned slot is fatal; an iteration of a
\* store with no Loaned slot is not an error and yields exactly the Present
\* entries, each once (AwaitingDrop slots may be there: they are passed over).
C15_Iteration ==
    [][Iterates =>
          IF \E k \in DOMAIN store : store[k] = Loaned
          THEN panic' # NoPanic
          ELSE /\ panic' = NoPanic
               /\ Len(last'.ret) = Cardinality(PresentEntries)
               /\ {last'.ret[n] : n \in DOMAIN last'.ret} = PresentEntries]_vars

\* ---------------------------------------------------------------------------
\* C16  A key with no slot
\* ---------------------------------------------------------------------------

\* C16: for a key with no slot in the map, lend returns None without a panic,
\* files no slot for the key, makes no Loan and leaves the counter as it was;
\* remove returns false (and files no slot); contains_key is false.
C16_AbsentKey ==
    /\ [](\A k \in Keys : k \notin DOMAIN store => ~contains_key(k))
    /\ [][\A k \in Keys :
            (k \notin DOMAIN store /\ Did("lend", k) /\ lend(k)) =>
               /\ panic' = NoPanic
               /\ last'.ret = None
               /\ k \notin DOMAIN store'
               /\ UNCHANGED <<store, loans, outstanding>>]_vars
    /\ [][\A k \in Keys :
            (k \notin DOMAIN store /\ Did("remove", k) /\ remove(k)) =>
               /\ panic' = NoPanic
               /\ last'.ret = FALSE
               /\ UNCHANGED <<store, loans, outstanding>>]_vars

\* lend was called for a key with no slot, never removed, and returned None, in
\* a store that holds another key on loan.
C16_Witness ==
    /\ last.op = "lend" /\ last.ret = None /\ panic = NoPanic
    /\ last.key \notin DOMAIN store /\ last.key \notin removed
    /\ \E j \in DOMAIN store : store[j] = Loaned
    /\ outstanding = 1

\* ---------------------------------------------------------------------------
\* C17  checkin never fails
\* ---------------------------------------------------------------------------

\* The two panics of checkin.
CheckinPanics == {"Returning replaced item", "Returning item not from store"}

\* C17: as long as no operation has panicked and the store is alive, the slot of
\* every active Loan's key is Loaned or AwaitingDrop; so the release of a Loan
\* finds such a slot and does not panic, and no run ever raises a panic of
\* checkin.
C17_CheckinNeverFails ==
    /\ []((panic = NoPanic /\ ~dropped) =>
             \A i \in ActiveLoans :
                /\ unwrap(loans[i].key) \in DOMAIN store
                /\ store[unwrap(loans[i].key)] \in {Loaned, AwaitingDrop})
    /\ [][\A k \in Keys : \A i \in DOMAIN loans :
            Release(i, k) => /\ k \in DOMAIN store
                             /\ store[k] \in {Loaned, AwaitingDrop}
                             /\ panic' = NoPanic]_vars
    /\ [](panic \notin CheckinPanics)

\* A Loan of a key removed while on loan has just been released without a panic,
\* while the Loan of another key is still active.
C17_Witness ==
    /\ last.op = "Loan_drop" /\ last.ret = TRUE /\ panic = NoPanic /\ ~dropped
    /\ last.key \in removed /\ last.key \notin DOMAIN store
    /\ \E i \in ActiveLoans : store[unwrap(loans[i].key)] = Loaned
    /\ Len(loans) = 2

\* ---------------------------------------------------------------------------
\* C18  Unwinding
\* ---------------------------------------------------------------------------

\* C18: while a panic is in progress, the drop of an active Loan calls no
\* checkin (the store, and so the slot of its key, and the counter are as they
\* were, and the panic is the same), and the drop of the store with a nonzero
\* counter raises no second panic.
C18_Unwinding ==
    /\ [][\A i \in ActiveLoans :
            (panicking /\ last'.op = "Loan_drop" /\ Loan_drop(i)) =>
               /\ last'.ret = FALSE
               /\ UNCHANGED <<store, outstanding, panic>>]_vars
    /\ [][(panicking /\ outstanding # 0 /\ Did("LendingLibrary_drop", NoKey) /\ LendingLibrary_drop) =>
               /\ panic' = panic
               /\ UNCHANGED <<store, outstanding, loans>>]_vars

\* After a double lend panicked, the store was dropped with its one Loan
\* counted, and then that Loan, still active, was dropped: the panic is the first one.
C18_Witness ==
    /\ panic = "Lending already loaned value"
    /\ dropped
    /\ outstanding = 1
    /\ Len(loans) = 1 /\ ActiveLoans = {1}
    /\ last.op = "Loan_drop" /\ last.ret = FALSE
    /\ store[unwrap(loans[1].key)] = Loaned

\* ---------------------------------------------------------------------------
\* C19  A pending removal is kept
\* ---------------------------------------------------------------------------

\* C19: a slot that is AwaitingDrop is deleted by the release of the Loan of its
\* key and is AwaitingDrop after every other step, whatever was attempted on the
\* key; a lend of the key, which panics, leaves it AwaitingDrop.
C19_PendingRemovalKept ==
    [][\A k \in Keys :
         (k \in DOMAIN store /\ store[k] = AwaitingDrop) =>
            IF \E i \in DOMAIN loans : Release(i, k)
            THEN k \notin DOMAIN store'
            ELSE k \in DOMAIN store' /\ store'[k] = AwaitingDrop]_vars

\* ---------------------------------------------------------------------------
\* C20  Lending and returning keep membership
\* ---------------------------------------------------------------------------

\* contains_key of every key and len are the same after the step.
MembershipKept ==
    /\ len' = len
    /\ \A j \in Keys : contains_key(j)' = contains_key(j)

\* C20: a lend that yields a Loan and the release of a Loan leave contains_key
\* of every key and len as they were, and so does every step that is not an
\* insert, a remove or a clear.
C20_LendReleaseKeepMembership ==
    /\ [][\A k \in Keys :
            (Did("lend", k) /\ lend(k) /\ panic' = NoPanic /\ last'.ret # None) =>
               MembershipKept]_vars
    /\ [][\A k \in Keys : \A i \in DOMAIN loans : Release(i, k) => MembershipKept]_vars
    /\ [][last'.op \notin {"insert", "remove", "clear"} => MembershipKept]_vars

\* ---------------------------------------------------------------------------
\* C21  Per-key independence
\* ---------------------------------------------------------------------------

\* The slot of key j (its presence, state and value) and every active Loan
\* lent for j are the same after the step.
KeyUntouched(j) ==
    /\ (j \in DOMAIN store') = (j \in DOMAIN store)
    /\ j \in DOMAIN store => store'[j] = store[j]
    /\ \A i \in LoansOf(j) : i \in DOMAIN loans' /\ loans'[i] = loans[i]

\* C21: insert, remove and lend of key k and the release of a Loan lent for k
\* leave every other key j untouched: the slot of j and the value held by the
\* active Loan for j are as they were, whether or not the operation panics.
C21_PerKeyIndependence ==
    /\ [][\A k \in Keys :
            (\/ Did("insert", k) /\ \E val \in Vals : insert(k, val)
             \/ Did("remove", k) /\ remove(k)
             \/ Did("lend", k) /\ lend(k)) =>
               \A j \in Keys \ {k} : KeyUntouched(j)]_vars
    /\ [][\A k \in Keys : \A i \in DOMAIN loans :
            Release(i, k) => \A j \in Keys \ {k} : KeyUntouched(j)]_vars

\* A key has just been removed from the store while the Loan of another key is
\* active and holds a value written through it; that key's slot is still Loaned.
C21_Witness ==
    /\ last.op = "remove" /\ last.ret = TRUE /\ panic = NoPanic
    /\ last.key \notin DOMAIN store
    /\ \E j \in DOMAIN store :
          /\ j # last.key
          /\ store[j] = Loaned
          /\ \E i \in LoansOf(j) : loans[i].inner = Some(Written)

\* ---------------------------------------------------------------------------
\* C22  Quiescence
\* ---------------------------------------------------------------------------

\* No operation has panicked and every Loan that lend made has been released.
Quiescent == panic = NoPanic /\ ActiveLoans = {}

\* C22: when no operation has panicked and every Loan has been released, the
\* counter is 0 and every slot left in the map is Present (none is Loaned or
\* AwaitingDrop), and the drop of the store in such a state does not panic.
C22_Quiescence ==
    /\ [](Quiescent =>
             /\ outstanding = 0
             /\ \A k \in DOMAIN store : IsPresent(store[k]))
    /\ [][(Quiescent /\ last'.op = "LendingLibrary_drop" /\ LendingLibrary_drop) =>
             panic' = NoPanic]_vars

\* The store has just been dropped without a panic after two Loans were lent
\* and released: one gave back a value written through it, the other was for a
\* key removed while on loan, which has no slot left.
C22_Witness ==
    /\ last.op = "LendingLibrary_drop" /\ dropped /\ panic = NoPanic
    /\ Len(loans) = 2 /\ ActiveLoans = {}
    /\ outstanding = 0
    /\ \E k \in DOMAIN store : store[k] = Present(Written)
    /\ \E k \in removed : k \notin DOMAIN store
====
